---- MODULE Spec2Model ----
(***************************************************************************)
(* Model of src/connect_options.rs: ConnectOptions (the aggregate that     *)
(* owns the Will/SSL boxes and the credential CStrings and carries the C   *)
(* struct MQTTAsync_connectOptions whose pointer fields must refer to that *)
(* owned storage) and ConnectOptionsBuilder.                               *)
(*                                                                         *)
(* Addresses are heap addresses (naturals, 0 is the null pointer).  A      *)
(* ConnectOptions value itself lives in a slot; moving it changes the slot *)
(* and nothing on the heap.                                                *)
(***************************************************************************)
EXTENDS Integers, Sequences, FiniteSets, TLC

VARIABLES builder, aggs, heap, ghost, last, panicked, nsets, created

vars == <<builder, aggs, heap, ghost, last, panicked, nsets, created>>

-----------------------------------------------------------------------------
(* Bounds *)

MaxSlots == 2      \* ConnectOptions values alive at the same time
MaxCreated == 2    \* ConnectOptions values created in one run
MaxSets == 2       \* builder setter calls in one run

-----------------------------------------------------------------------------
(* Input domains *)

Slots == 1..MaxSlots
Addrs == 1..(4 * MaxSlots)
Null == 0
None == [none |-> TRUE]
Free == [free |-> TRUE]

\* std::time::Duration::as_secs() is a u64.  It is kept as its upper 32 bits
\* (hi), bit 31 (b31) and its low 31 bits (lo), so that the 32-bit cast can be
\* computed exactly: seconds = hi * 2^32 + b31 * 2^31 + lo.
Dur(h, b, l) == [hi |-> h, b31 |-> b, lo |-> l]
Durations == { Dur(0, 0, 0), Dur(0, 0, 5), Dur(0, 1, 0), Dur(1, 0, 0) }

\* (min, max) pairs for automatic_reconnect: min > max, a zero, and two
\* values beyond the 32-bit range.
ReconnectPairs == { <<Dur(0, 0, 5), Dur(0, 0, 2)>>,
                    <<Dur(0, 0, 0), Dur(0, 0, 5)>>,
                    <<Dur(0, 1, 0), Dur(1, 0, 0)>> }

\* Texts are byte sequences; 0 is the NUL byte.
Texts == { <<>>, <<97, 108>>, <<98, 0, 100>> }

\* The Will and SSL sub-configurations are values of other modules.
Wills == { "willA", "willB" }
Ssls == { "sslA" }
NoSub == "none"                 \* Option::None of a sub-configuration
Inflights == { 10 }

-----------------------------------------------------------------------------
(* Pure helpers *)

\* `secs == 0`
IsZeroSecs(d) == d.hi = 0 /\ d.b31 = 0 /\ d.lo = 0

\* `secs as i32`: the low 32 bits of the u64 read as two's complement.
AsI32(d) == IF d.b31 = 1 THEN (d.lo - 1073741824) - 1073741824 ELSE d.lo

\* `if secs == 0 { 1 } else { secs as i32 }`
ClampSecs(d) == IF IsZeroSecs(d) THEN 1 ELSE AsI32(d)

\* `if clean { 1 } else { 0 }`
BoolToInt(b) == IF b THEN 1 ELSE 0

HasNul(s) == \E i \in 1..Len(s) : s[i] = 0

\* CString::new without the interior-NUL check (from_vec_unchecked).
CStringNew_unchecked(s) == [ok |-> Append(s, 0)]

\* CString::new(text): Err(NulError) on an interior NUL byte, else the bytes
\* followed by the terminator.
CStringNew(s) == IF HasNul(s) THEN [err |-> "NulError"]
                              ELSE [ok |-> Append(s, 0)]

\* CStr::from_ptr(p): the bytes of the buffer up to its first NUL.
RECURSIVE CStrDecode(_)
CStrDecode(bytes) ==
    IF bytes = <<>> \/ Head(bytes) = 0 THEN <<>>
    ELSE <<Head(bytes)>> \o CStrDecode(Tail(bytes))

\* The allocator hands out the lowest free address, so that freed storage is
\* reused at once.
LowestFree(h) == CHOOSE a \in Addrs : h[a] = Free /\ \A b \in Addrs : b < a => h[b] # Free

\* Allocate one cell per element of cells, in order.
RECURSIVE AllocCells(_, _)
AllocCells(h, cells) ==
    IF cells = <<>> THEN [heap |-> h, addrs |-> <<>>]
    ELSE LET a == LowestFree(h)
             r == AllocCells([h EXCEPT ![a] = Head(cells)], Tail(cells))
         IN  [heap |-> r.heap, addrs |-> <<a>> \o r.addrs]

\* ffi::MQTTAsync_connectOptions::default()
DefaultCopts ==
    [ struct_id |-> <<77, 81, 84, 67>>, struct_version |-> 5,
      keepAliveInterval |-> 0, cleansession |-> 0, maxInflight |-> 0,
      will |-> Null, username |-> Null, password |-> Null,
      connectTimeout |-> 0, retryInterval |-> 0, ssl |-> Null,
      automaticReconnect |-> 0, minRetryInterval |-> 0,
      maxRetryInterval |-> 0 ]

\* What a ConnectOptions owns: its boxes and its CString buffers.
Owned(a) == {a.will, a.ssl, a.user_name, a.password} \ {Null}

LiveSlots == {s \in Slots : aggs[s] # None}
FreeSlots == {s \in Slots : aggs[s] = None}

\* Reading through a pointer; a freed or null target has no value.
Deref(p) == IF p \in Addrs /\ heap[p] # Free THEN heap[p] ELSE None

NoArgs == <<>>
Op(name, args, slot, src, res) ==
    [op |-> name, args |-> args, slot |-> slot, src |-> src, res |-> res]

-----------------------------------------------------------------------------
(* ConnectOptions *)

\* CString::as_bytes(): the buffer without its trailing terminator.
AsBytes(bytes) == SubSeq(bytes, 1, Len(bytes) - 1)

\* A Box<WillOptions> / Box<SslOptions> / CString buffer on the heap.
WillCell(w) == [kind |-> "will", val |-> w]
SslCell(s) == [kind |-> "ssl", val |-> s]
CStrCell(bytes) == [kind |-> "cstr", bytes |-> bytes]

\* The struct literal `ConnectOptions { copts, will, ssl, user_name,
\* password }`: the fields are evaluated in order, each Some(Box::new(..))
\* and each CString taking a fresh heap allocation.  w and s are NoSub or
\* the value to box; u and p are the bytes of the CStrings.
NewOpts(h, copts, w, s, u, p) ==
    LET cells == (IF w # NoSub THEN <<WillCell(w)>> ELSE <<>>)
                 \o (IF s # NoSub THEN <<SslCell(s)>> ELSE <<>>)
                 \o <<CStrCell(u), CStrCell(p)>>
        r == AllocCells(h, cells)
        n == Len(cells)
    IN  [ heap |-> r.heap,
          opts |-> [ copts |-> copts,
                     will |-> IF w # NoSub THEN r.addrs[1] ELSE Null,
                     ssl |-> IF s # NoSub THEN r.addrs[n - 2] ELSE Null,
                     user_name |-> r.addrs[n - 1],
                     password |-> r.addrs[n] ] ]

\* fixup that forgets the ssl pointer.
fixup_keepSsl(h, opts) ==
    [opts EXCEPT
       !.copts.will = IF opts.will # Null THEN opts.will ELSE Null,
       !.copts.username =
           IF Len(AsBytes(h[opts.user_name].bytes)) = 0
           THEN opts.user_name ELSE Null,
       !.copts.password = opts.password]

\* ConnectOptions::fixup
fixup(h, opts) ==
    [opts EXCEPT
       !.copts.will = IF opts.will # Null THEN opts.will ELSE Null,
       !.copts.ssl = IF opts.ssl # Null THEN opts.ssl ELSE Null,
       !.copts.username =
           IF Len(AsBytes(h[opts.user_name].bytes)) = 0
           THEN opts.user_name ELSE Null,
       !.copts.password = opts.password]

\* set_clean_session with the flag inverted.
set_clean_session_inverted(self, clean) ==
    [self EXCEPT !.copts.cleansession = BoolToInt(~clean)]

\* ConnectOptions::set_clean_session
set_clean_session(self, clean) ==
    [self EXCEPT !.copts.cleansession = BoolToInt(clean)]

\* ConnectOptions::get_clean_session
get_clean_session(self) == self.copts.cleansession # 0

\* impl Default for ConnectOptions
DefaultOpts(h) ==
    LET r == NewOpts(h, DefaultCopts, NoSub, NoSub,
                     CStringNew(<<>>).ok, CStringNew(<<>>).ok)
    IN  [heap |-> r.heap, opts |-> fixup(r.heap, r.opts)]

\* WillOptions::clone / SslOptions::clone / CString::clone: a deep copy.
SubClone(h, p) == IF p = Null THEN NoSub ELSE h[p].val
CStringClone(h, p) == h[p].bytes

\* clone that does not call fixup: the pointers are those copied with the
\* C struct of the source.
CloneOpts_nofixup(h, self) ==
    LET r == NewOpts(h, self.copts, SubClone(h, self.will),
                     SubClone(h, self.ssl), CStringClone(h, self.user_name),
                     CStringClone(h, self.password))
    IN  [heap |-> r.heap, opts |-> r.opts]

\* A bitwise copy of the struct: the boxes and buffers of the source are
\* shared instead of copied.
CloneOpts_shallow(h, self) == [heap |-> h, opts |-> fixup(h, self)]

\* impl Clone for ConnectOptions
CloneOpts(h, self) ==
    LET r == NewOpts(h, self.copts, SubClone(h, self.will),
                     SubClone(h, self.ssl), CStringClone(h, self.user_name),
                     CStringClone(h, self.password))
    IN  [heap |-> r.heap, opts |-> fixup(r.heap, r.opts)]

-----------------------------------------------------------------------------
(* ConnectOptionsBuilder *)

\* ConnectOptionsBuilder::new
BuilderNew ==
    [ copts |-> DefaultCopts, will |-> NoSub, ssl |-> NoSub,
      user_name |-> <<>>, password |-> <<>> ]

Init ==
    /\ builder = BuilderNew
    /\ aggs = [s \in Slots |-> None]
    /\ heap = [a \in Addrs |-> Free]
    /\ ghost = [s \in Slots |-> None]
    /\ last = Op("new", NoArgs, 0, 0, "ok")
    /\ panicked = FALSE
    /\ nsets = 0
    /\ created = 0

\* Every builder setter: mutates the builder in place, touches nothing else.
Setter(name, args, b) ==
    /\ ~panicked
    /\ nsets < MaxSets
    /\ builder' = b
    /\ last' = Op(name, args, 0, 0, "ok")
    /\ nsets' = nsets + 1
    /\ UNCHANGED <<aggs, heap, ghost, panicked, created>>

keep_alive_interval(d) ==
    Setter("keep_alive_interval", <<d>>,
           [builder EXCEPT !.copts.keepAliveInterval = ClampSecs(d)])

clean_session(clean) ==
    Setter("clean_session", <<clean>>,
           [builder EXCEPT !.copts.cleansession = BoolToInt(clean)])

max_inflight(n) ==
    Setter("max_inflight", <<n>>,
           [builder EXCEPT !.copts.maxInflight = n])

will_options(w) ==
    Setter("will_options", <<w>>, [builder EXCEPT !.will = w])

ssl_options(s) ==
    Setter("ssl_options", <<s>>, [builder EXCEPT !.ssl = s])

user_name(t) ==
    Setter("user_name", <<t>>, [builder EXCEPT !.user_name = t])

password(t) ==
    Setter("password", <<t>>, [builder EXCEPT !.password = t])

connect_timeout(d) ==
    Setter("connect_timeout", <<d>>,
           [builder EXCEPT !.copts.connectTimeout = ClampSecs(d)])

retry_interval(d) ==
    Setter("retry_interval", <<d>>,
           [builder EXCEPT !.copts.connectTimeout = ClampSecs(d)])

automatic_reconnect(dmin, dmax) ==
    Setter("automatic_reconnect", <<dmin, dmax>>,
           [builder EXCEPT !.copts.automaticReconnect = 1,
                           !.copts.minRetryInterval = ClampSecs(dmin),
                           !.copts.maxRetryInterval = ClampSecs(dmax)])

\* ConnectOptionsBuilder::finalize, the value it returns.
FinalizeOpts(h, b) ==
    LET r == NewOpts(h, b.copts, b.will, b.ssl,
                     CStringNew(b.user_name).ok, CStringNew(b.password).ok)
    IN  [heap |-> r.heap, opts |-> fixup(r.heap, r.opts)]

\* `.unwrap()` of the two CString::new results panics on Err.
FinalizePanics(b) ==
    \/ "err" \in DOMAIN CStringNew(b.user_name)
    \/ "err" \in DOMAIN CStringNew(b.password)

Ghost(id, origin, srcId, w, s, wc) ==
    [id |-> id, origin |-> origin, srcId |-> srcId, supWill |-> w,
     supSsl |-> s, willAtClone |-> wc]

\* The body of finalize(&self); nb is the builder it leaves behind.  On a
\* panic the boxes and buffers built so far are dropped by the unwinding, and
\* nothing is returned.
FinalizeLeaving(nb) ==
    /\ ~panicked
    /\ created < MaxCreated
    /\ IF FinalizePanics(builder)
       THEN /\ panicked' = TRUE
            /\ last' = Op("finalize", NoArgs, 0, 0, "panic")
            /\ UNCHANGED <<builder, aggs, heap, ghost, nsets, created>>
       ELSE \E t \in FreeSlots :
              LET r == FinalizeOpts(heap, builder) IN
              /\ aggs' = [aggs EXCEPT ![t] = r.opts]
              /\ heap' = r.heap
              /\ ghost' = [ghost EXCEPT ![t] =
                     Ghost(created + 1, "finalize", 0, builder.will,
                           builder.ssl, NoSub)]
              /\ created' = created + 1
              /\ last' = Op("finalize", NoArgs, t, 0, "ok")
              /\ builder' = nb
              /\ UNCHANGED <<panicked, nsets>>

\* finalize(self): the builder is consumed and left as new.
finalize_consuming == FinalizeLeaving(BuilderNew)

\* ConnectOptionsBuilder::finalize
finalize == FinalizeLeaving(builder)

\* ConnectOptions::new / ConnectOptions::default
default ==
    /\ ~panicked
    /\ created < MaxCreated
    /\ \E t \in FreeSlots :
         LET r == DefaultOpts(heap) IN
         /\ aggs' = [aggs EXCEPT ![t] = r.opts]
         /\ heap' = r.heap
         /\ ghost' = [ghost EXCEPT ![t] =
                Ghost(created + 1, "default", 0, NoSub, NoSub, NoSub)]
         /\ created' = created + 1
         /\ last' = Op("default", NoArgs, t, 0, "ok")
         /\ UNCHANGED <<builder, panicked, nsets>>

\* `let t = s.clone()`
clone(s, t) ==
    /\ ~panicked
    /\ created < MaxCreated
    /\ s \in LiveSlots /\ t \in FreeSlots
    /\ LET r == CloneOpts(heap, aggs[s]) IN
         /\ aggs' = [aggs EXCEPT ![t] = r.opts]
         /\ heap' = r.heap
         /\ ghost' = [ghost EXCEPT ![t] =
                Ghost(created + 1, "clone", ghost[s].id, ghost[s].supWill,
                      ghost[s].supSsl, SubClone(heap, aggs[s].will))]
    /\ created' = created + 1
    /\ last' = Op("clone", NoArgs, t, s, "ok")
    /\ UNCHANGED <<builder, panicked, nsets>>

\* `let t = s;`: the struct is moved to another place, its boxes and
\* buffers stay where they are on the heap.
move(s, t) ==
    /\ ~panicked
    /\ s \in LiveSlots /\ t \in FreeSlots
    /\ aggs' = [aggs EXCEPT ![t] = aggs[s], ![s] = None]
    /\ ghost' = [ghost EXCEPT ![t] = ghost[s], ![s] = None]
    /\ last' = Op("move", NoArgs, t, s, "ok")
    /\ UNCHANGED <<builder, heap, panicked, nsets, created>>

\* A ConnectOptions goes out of scope: its boxes and CStrings are freed.
drop(s) ==
    /\ ~panicked
    /\ s \in LiveSlots
    /\ heap' = [a \in Addrs |-> IF a \in Owned(aggs[s]) THEN Free ELSE heap[a]]
    /\ aggs' = [aggs EXCEPT ![s] = None]
    /\ ghost' = [ghost EXCEPT ![s] = None]
    /\ last' = Op("drop", NoArgs, s, s, "ok")
    /\ UNCHANGED <<builder, panicked, nsets, created>>

\* `opts.set_clean_session(clean)` on the ConnectOptions in slot s
SetCleanSession(s, clean) ==
    /\ ~panicked
    /\ s \in LiveSlots
    /\ aggs' = [aggs EXCEPT ![s] = set_clean_session(aggs[s], clean)]
    /\ last' = Op("set_clean_session", <<clean>>, s, s, "ok")
    /\ UNCHANGED <<builder, heap, ghost, panicked, nsets, created>>

Next ==
    \/ \E d \in Durations : keep_alive_interval(d)
    \/ \E b \in BOOLEAN : clean_session(b)
    \/ \E n \in Inflights : max_inflight(n)
    \/ \E w \in Wills : will_options(w)
    \/ \E s \in Ssls : ssl_options(s)
    \/ \E t \in Texts : user_name(t)
    \/ \E t \in Texts : password(t)
    \/ \E d \in Durations : connect_timeout(d)
    \/ \E d \in Durations : retry_interval(d)
    \/ \E p \in ReconnectPairs : automatic_reconnect(p[1], p[2])
    \/ finalize
    \/ default
    \/ \E s, t \in Slots : clone(s, t)
    \/ \E s, t \in Slots : move(s, t)
    \/ \E s \in Slots : drop(s)
    \/ \E s \in Slots, b \in BOOLEAN : SetCleanSession(s, b)

Spec == Init /\ [][Next]_vars

-----------------------------------------------------------------------------
(* Properties *)

SetterOps == { "keep_alive_interval", "clean_session", "max_inflight",
               "will_options", "ssl_options", "user_name", "password",
               "connect_timeout", "retry_interval", "automatic_reconnect" }

\* The non-null pointer fields of the C struct of a ConnectOptions.
AddrFields(a) ==
    {a.copts.will, a.copts.ssl, a.copts.username, a.copts.password} \ {Null}

\* The 32-bit value v is max(1, seconds(d)) as a number: only a duration
\* below 2^31 seconds can equal a non-negative 32-bit value.
IsMax1Secs(v, d) ==
    /\ d.hi = 0 /\ d.b31 = 0
    /\ v = IF d.lo = 0 THEN 1 ELSE d.lo

\* The slot of the ConnectOptions a clone was made from, if it is alive.
SourceSlots(s) == {t \in LiveSlots : ghost[t].id = ghost[s].srcId}

\* C1: every non-null pointer field of a live ConnectOptions refers to a
\* live heap cell that this ConnectOptions owns and no other one owns.
C1_AddressesOwned ==
    \A s \in LiveSlots :
      \A p \in AddrFields(aggs[s]) :
        /\ p \in Owned(aggs[s])
        /\ heap[p] # Free
        /\ \A t \in LiveSlots \ {s} : p \notin Owned(aggs[t])

\* C1 witness: a clone holding a Will whose source was dropped has just been
\* moved to another place.
C1_Witness ==
    /\ last.op = "move"
    /\ ghost[last.slot].origin = "clone"
    /\ SourceSlots(last.slot) = {}
    /\ aggs[last.slot].copts.will # Null
    /\ aggs[last.slot].copts.password # Null

\* C2: a clone points only into its own storage, which shares no address
\* with its source, and its will pointer reads the Will the source held when
\* it was cloned, also after the source is gone.
C2_CloneIndependent ==
    \A s \in LiveSlots :
      ghost[s].origin = "clone" =>
        /\ \A p \in AddrFields(aggs[s]) :
              p \in Owned(aggs[s]) /\ heap[p] # Free
        /\ \A t \in SourceSlots(s) :
              /\ Owned(aggs[s]) \cap Owned(aggs[t]) = {}
              /\ AddrFields(aggs[s]) \cap AddrFields(aggs[t]) = {}
        /\ ghost[s].willAtClone # NoSub =>
              /\ aggs[s].copts.will # Null
              /\ Deref(aggs[s].copts.will) = WillCell(ghost[s].willAtClone)

\* C2 witness: a clone with a Will is alive and its source has been dropped.
C2_Witness ==
    \E s \in LiveSlots :
      /\ ghost[s].origin = "clone"
      /\ ghost[s].willAtClone # NoSub
      /\ SourceSlots(s) = {}
      /\ last.op = "drop"

\* C3: the will (ssl) pointer is null exactly when no Will (SSL options) is
\* held; otherwise it is the address of the own box, whose content is the
\* sub-configuration given to the builder; default() has both null.
C3_SubConfigPointers ==
    \A s \in LiveSlots :
      LET a == aggs[s]
          g == ghost[s]
      IN  /\ (a.copts.will = Null) <=> (a.will = Null)
          /\ (a.copts.ssl = Null) <=> (a.ssl = Null)
          /\ (a.will = Null) <=> (g.supWill = NoSub)
          /\ (a.ssl = Null) <=> (g.supSsl = NoSub)
          /\ a.will # Null =>
                a.copts.will = a.will /\ Deref(a.copts.will) = WillCell(g.supWill)
          /\ a.ssl # Null =>
                a.copts.ssl = a.ssl /\ Deref(a.copts.ssl) = SslCell(g.supSsl)
          /\ g.origin = "default" => a.copts.will = Null /\ a.copts.ssl = Null

\* C3 witness: a finalized ConnectOptions holding both a Will and SSL options.
C3_Witness ==
    \E s \in LiveSlots :
      /\ ghost[s].origin = "finalize"
      /\ aggs[s].copts.will # Null
      /\ aggs[s].copts.ssl # Null

\* C4: after finalize() a non-empty user name (password) set on the builder
\* is what the username (password) pointer decodes to.
C4_CredentialsReachStruct ==
    (last.op = "finalize" /\ last.res = "ok") =>
      LET c == aggs[last.slot].copts
      IN  /\ builder.user_name # <<>> =>
                /\ c.username # Null
                /\ Deref(c.username) # None
                /\ CStrDecode(Deref(c.username).bytes) = builder.user_name
          /\ builder.password # <<>> =>
                /\ c.password # Null
                /\ Deref(c.password) # None
                /\ CStrDecode(Deref(c.password).bytes) = builder.password

\* C5: keep_alive_interval(d) and connect_timeout(d) store max(1, seconds(d)),
\* a value that is at least 1, for every duration d.
C5_ClampedSeconds ==
    /\ last.op = "keep_alive_interval" =>
          /\ builder.copts.keepAliveInterval >= 1
          /\ IsMax1Secs(builder.copts.keepAliveInterval, last.args[1])
    /\ last.op = "connect_timeout" =>
          /\ builder.copts.connectTimeout >= 1
          /\ IsMax1Secs(builder.copts.connectTimeout, last.args[1])

\* C6: retry_interval(d) stores max(1, seconds(d)) in the retry interval
\* field and leaves the connect timeout as it was.
C6_RetryIntervalField ==
    [][ last'.op = "retry_interval" =>
          /\ IsMax1Secs(builder'.copts.retryInterval, last'.args[1])
          /\ builder'.copts.connectTimeout = builder.copts.connectTimeout ]_vars

\* C7 as claimed: finalize() on a builder whose user name or password holds a
\* NUL byte returns an InvalidConfig error and makes no ConnectOptions.
C7_ReturnsInvalidConfig ==
    [][ (last'.op = "finalize"
            /\ (HasNul(builder.user_name) \/ HasNul(builder.password))) =>
          /\ last'.res = "InvalidConfig"
          /\ ~panicked'
          /\ aggs' = aggs /\ heap' = heap ]_vars

\* C7 as amended: finalize() on a builder whose user name or password holds a
\* NUL byte panics and makes no ConnectOptions; a finalize without such a
\* byte in either text does not panic; user_name and password store any text
\* without failing.
C7_PanicsAtFinalize ==
    [][ /\ (last'.op = "finalize"
              /\ (HasNul(builder.user_name) \/ HasNul(builder.password))) =>
            /\ last'.res = "panic" /\ panicked'
            /\ aggs' = aggs /\ heap' = heap
        /\ (last'.op = "finalize"
              /\ ~(HasNul(builder.user_name) \/ HasNul(builder.password))) =>
            last'.res = "ok" /\ ~panicked'
        /\ last'.op = "user_name" =>
            /\ last'.res = "ok" /\ ~panicked'
            /\ builder'.user_name = last'.args[1]
        /\ last'.op = "password" =>
            /\ last'.res = "ok" /\ ~panicked'
            /\ builder'.password = last'.args[1] ]_vars

\* C7 witness: a user name with a NUL byte was accepted by the setter and
\* finalize has panicked on it.
C7_Witness ==
    /\ last.op = "finalize" /\ last.res = "panic"
    /\ HasNul(builder.user_name)

\* C8: finalize() leaves the builder and every earlier ConnectOptions and its
\* storage as they were and gives the new one cells that were free; a builder
\* setter changes no ConnectOptions and no storage.
C8_FinalizeKeepsBuilder ==
    [][ /\ last'.op = "finalize" =>
            /\ builder' = builder
            /\ \A s \in LiveSlots :
                  /\ aggs'[s] = aggs[s]
                  /\ \A p \in Owned(aggs[s]) : heap'[p] = heap[p]
            /\ last'.res = "ok" =>
                  /\ aggs[last'.slot] = None
                  /\ \A p \in Owned(aggs'[last'.slot]) : heap[p] = Free
                  /\ \A s \in LiveSlots :
                        Owned(aggs'[last'.slot]) \cap Owned(aggs[s]) = {}
        /\ last'.op \in SetterOps => aggs' = aggs /\ heap' = heap ]_vars

\* C8 witness: the builder was finalized, changed and finalized again; both
\* results are alive and differ.
C8_Witness ==
    /\ last.op = "finalize" /\ last.res = "ok"
    /\ \E s \in LiveSlots \ {last.slot} :
          /\ ghost[s].origin = "finalize"
          /\ aggs[s].copts.keepAliveInterval
                # aggs[last.slot].copts.keepAliveInterval

\* C9: automatic_reconnect(min, max) sets the flag, stores max(1, seconds(min))
\* and max(1, seconds(max)) as given, and changes no other builder field.
C9_AutomaticReconnect ==
    [][ last'.op = "automatic_reconnect" =>
          /\ builder'.copts.automaticReconnect = 1
          /\ IsMax1Secs(builder'.copts.minRetryInterval, last'.args[1])
          /\ IsMax1Secs(builder'.copts.maxRetryInterval, last'.args[2])
          /\ builder' = [builder EXCEPT
                !.copts.automaticReconnect = builder'.copts.automaticReconnect,
                !.copts.minRetryInterval = builder'.copts.minRetryInterval,
                !.copts.maxRetryInterval = builder'.copts.maxRetryInterval]
      ]_vars

\* C10: set_clean_session(b) makes get_clean_session() return b and changes
\* nothing but the cleansession scalar: no pointer, no other scalar, no
\* storage, no other ConnectOptions; the pointers stay owned.
C10_SetCleanSessionFrame ==
    [][ last'.op = "set_clean_session" =>
          LET s == last'.slot IN
          /\ get_clean_session(aggs'[s]) = last'.args[1]
          /\ aggs' = [aggs EXCEPT
                ![s].copts.cleansession = aggs'[s].copts.cleansession]
          /\ heap' = heap
          /\ builder' = builder
          /\ \A p \in AddrFields(aggs'[s]) :
                p \in Owned(aggs'[s]) /\ heap'[p] # Free ]_vars

\* C10 witness: the flag of a ConnectOptions that holds a Will was set.
C10_Witness ==
    /\ last.op = "set_clean_session"
    /\ last.args[1] = TRUE
    /\ aggs[last.slot].copts.will # Null
    /\ get_clean_session(aggs[last.slot])

====
